---- MODULE Spec2Model ----
(***************************************************************************)
(* Model of the long-audio transcription pipeline of                       *)
(* src/transcription_service.py: the job driver transcribe_audio, the      *)
(* segmenter, the sequential and the parallel segment scheduler, the       *)
(* process-wide progress map and the /cleanup sweep.                       *)
(*                                                                         *)
(* Nine specifications share the variables and the actions (SpecLive is   *)
(* Spec's request under fairness):                                         *)
(*   Spec        one /transcribe request with any input, from its arrival  *)
(*               to its answer;                                            *)
(*   SpecShared  several /transcribe requests on short or missing files    *)
(*               whose caller-supplied job ids may coincide, the clock     *)
(*               and the /cleanup sweep;                                   *)
(*   SpecSeg     segment_audio alone, on every duration and segment        *)
(*               length of a bounded range;                                *)
(*   SpecPool    one /transcribe request on a file of more segments than   *)
(*               the pool has workers, on a healthy installation;          *)
(*   SpecSweep   /transcribe requests on missing files and the /cleanup    *)
(*               sweep run statement by statement between their steps;     *)
(*   SpecModel   concurrent callers of get_model, run statement by         *)
(*               statement, after a preload that succeeded or failed;      *)
(*   SpecFiles   two concurrent /transcribe requests with distinct job     *)
(*               ids on segmented files whose names differ;                *)
(*   SpecValidate two /transcribe requests on any file, up to the end of   *)
(*               validate_audio_file and of the except branch after it;    *)
(*   SpecSummary generate_summary alone, on short texts of any pieces and  *)
(*               on long texts of distinct sentences.                      *)
(***************************************************************************)
EXTENDS Integers, Sequences, FiniteSets, TLC

(***************************************************************************)
(* Bounds of the model.                                                    *)
(***************************************************************************)
MaxSegments == 3      \* the longest modelled file is cut into this many segments
MaxTime == 1          \* the clock takes the readings 0..MaxTime
PdSteps == 2          \* processed_duration is measured in 1/PdSteps of the duration
MaxLoopUpdates == 1   \* progress updates inside the loop over the engine's segments
MaxDuration == 13     \* SpecSeg: durations 1..MaxDuration (and the spec's example)
MaxLength == 4        \* SpecSeg: segment lengths 1..MaxLength (and the default)
MaxPoolSegments == 4  \* SpecPool: the file is cut into this many segments
MaxLiveSegments == 2  \* SpecLive: the longest file is cut into this many segments
MaxPieces == 5        \* SpecSummary: short texts have 1..MaxPieces pieces between dots
MaxSentences == 18    \* SpecSummary: long texts have up to MaxSentences sentences

(***************************************************************************)
(* Program constants.                                                      *)
(***************************************************************************)
segment_length == 600
parallel_workers == 3
high_memory_mode == TRUE
default_model == "large-v3"
segment_threshold == IF high_memory_mode THEN 600 ELSE 300

Reqs == {1, 2}
JobIds == {"j1", "j2"}

VARIABLES
    transcription_progress, \* the global dict: job id -> Progress record
    CONFIG,                 \* the mutable part of CONFIG: device, compute_type, robust_mode
    service,                \* TranscriptionService: models (loaded names), preloaded
    now,                    \* the reading time.time() returns
    pc,                     \* per request: where its driver thread stands
    inp,                    \* per request: the body of the POST /transcribe, and the error
                            \* the engine raises on a segment of it when it fails on one
    loc,                    \* per request: the locals of transcribe_audio and its scheduler
    task,                   \* per request: the futures of transcribe_segments_parallel
    resp,                   \* per request: what /transcribe answered
    obs,                    \* per request: the calls it made to get_model, to segment_audio
                            \* and to the engine, the units of work of its scheduler, those
                            \* the engine failed on,
                            \* and the temporary files it has on disk: the file
                            \* preprocess_audio wrote, the segment files segment_audio wrote
    sweep,                  \* the last /cleanup call and its answer, and where the call
                            \* that is running stands in its loop over the map
    dirty,                  \* some record changed status since the last /cleanup call
    seg_call,               \* SpecSeg: the arguments of a segment_audio call
    seg_ret,                \* SpecSeg: what the call returned
    summary_call,           \* SpecSummary: the text of a generate_summary call
    summary_ret             \* SpecSummary: what the call returned

vars == <<transcription_progress, CONFIG, service, now, pc, inp, loc, task, resp,
          obs, sweep, dirty, seg_call, seg_ret, summary_call, summary_ret>>

reqvars == <<pc, inp, loc, task, resp, obs>>
segvars == <<seg_call, seg_ret, summary_call, summary_ret>>

(***************************************************************************)
(* Small helpers.                                                          *)
(***************************************************************************)
Min(a, b) == IF a < b THEN a ELSE b

\* int(np.ceil(a / b)) for a >= 0, b > 0
CeilDiv(a, b) == (a + b - 1) \div b

\* d.update(fields): the keys of fields overwrite, the others stay
Update(rec, fields) == [k \in DOMAIN rec |-> IF k \in DOMAIN fields THEN fields[k] ELSE rec[k]]

Terminal(rec) == rec.status \in {"completado", "error"}

StatusMap(P) == [j \in DOMAIN P |-> P[j].status]

(***************************************************************************)
(* segment_audio: the (start, end) intervals of the segments it writes.    *)
(* Times are in a unit in which the duration and the segment length are    *)
(* integers.                                                               *)
(***************************************************************************)
\* a segmenter that does not clip the last interval to the duration
SegmentIntervalPadded(i, total_duration, segment_duration) ==
    [start |-> (i - 1) * segment_duration, end |-> i * segment_duration]

SegmentInterval(i, total_duration, segment_duration) ==
    [start |-> (i - 1) * segment_duration,
     end   |-> Min(i * segment_duration, total_duration)]

segment_audio(total_duration, segment_duration) ==
    LET num_segments == CeilDiv(total_duration, segment_duration)
    IN  [i \in 1..num_segments |-> SegmentInterval(i, total_duration, segment_duration)]

(***************************************************************************)
(* Inputs.  A file is what validate_audio_file can see of it.              *)
(***************************************************************************)
File(exists, too_large, ext_ok, readable, duration) ==
    [exists |-> exists, too_large |-> too_large, ext_ok |-> ext_ok,
     readable |-> readable, duration |-> duration]

InvalidFiles ==
    { File(FALSE, FALSE, TRUE, TRUE, 0),     \* no such path
      File(TRUE, TRUE, FALSE, TRUE, 0),      \* too large (and a wrong extension)
      File(TRUE, FALSE, FALSE, TRUE, 0),     \* unsupported extension
      File(TRUE, FALSE, TRUE, FALSE, 0) }    \* librosa cannot read it

ShortFiles == { File(TRUE, FALSE, TRUE, TRUE, segment_threshold) }

LongFiles ==
    { File(TRUE, FALSE, TRUE, TRUE, (n - 1) * segment_length + 5) : n \in 2..MaxSegments }

NoFile == File(FALSE, FALSE, FALSE, FALSE, 0)

\* every file validate_audio_file can tell apart
AllFiles ==
    { File(e, t, x, p, IF e /\ ~t /\ x /\ p THEN segment_threshold ELSE 0) :
          e \in BOOLEAN, t \in BOOLEAN, x \in BOOLEAN, p \in BOOLEAN }

\* the checks validate_audio_file makes of a file before it returns or raises
validation_checks(file) ==
    IF ~file.exists THEN <<"exists">>
    ELSE IF file.too_large THEN <<"exists", "size">>
    ELSE IF ~file.ext_ok THEN <<"exists", "size", "format">>
    ELSE <<"exists", "size", "format", "probe">>

\* a validation that looks at the extension before the size
validate_audio_file_format_first(file) ==
    IF ~file.exists THEN "FileNotFoundError"
    ELSE IF ~file.ext_ok THEN "ValueError: Formato no soportado"
    ELSE IF file.too_large THEN "ValueError: Archivo demasiado grande"
    ELSE IF ~file.readable THEN "ValueError: Error leyendo archivo de audio"
    ELSE "ok"

\* a validation without the librosa probe of the file
validate_audio_file_unprobed(file) ==
    IF ~file.exists THEN "FileNotFoundError"
    ELSE IF file.too_large THEN "ValueError: Archivo demasiado grande"
    ELSE IF ~file.ext_ok THEN "ValueError: Formato no soportado"
    ELSE "ok"

\* validate_audio_file: the exception it raises, or "ok"
validate_audio_file(file) ==
    IF ~file.exists THEN "FileNotFoundError"
    ELSE IF file.too_large THEN "ValueError: Archivo demasiado grande"
    ELSE IF ~file.ext_ok THEN "ValueError: Formato no soportado"
    ELSE IF ~file.readable THEN "ValueError: Error leyendo archivo de audio"
    ELSE "ok"

(***************************************************************************)
(* The progress map.                                                       *)
(***************************************************************************)
\* the record transcribe_audio stores when a job starts
NewProgress(start_time) ==
    [status |-> "iniciando", progress |-> 0, stage |-> "Validando archivo...",
     start_time |-> start_time, current_segment |-> 0, total_segments |-> 0,
     segments_completed |-> -1, segments_total |-> -1, error |-> "none"]

Has(j) == j \in DOMAIN transcription_progress

\* transcription_progress[j] = rec
Insert(P, j, rec) == [k \in DOMAIN P \cup {j} |-> IF k = j THEN rec ELSE P[k]]

\* transcription_progress[j].update(fields), for a key that is present
Put(P, j, fields) == [P EXCEPT ![j] = Update(@, fields)]

\* a removal that stops after the first key of S
DeleteFirst(P, S) ==
    IF S = {} THEN P ELSE LET j == CHOOSE k \in S : TRUE IN [k \in DOMAIN P \ {j} |-> P[k]]

\* del transcription_progress[j] for every j of S
Delete(P, S) == [k \in DOMAIN P \ S |-> P[k]]

SetProgress(P) ==
    /\ transcription_progress' = P
    /\ dirty' = (dirty \/ StatusMap(P) # StatusMap(transcription_progress))

(***************************************************************************)
(* Texts and segment results.                                              *)
(***************************************************************************)
RealText(i) == [kind |-> "text", seg |-> i]
ErrorTextParallel(i) == [kind |-> "[Error en segmento n]", seg |-> i]
ErrorTextSequential(i) == [kind |-> "[ERROR: No se pudo transcribir el segmento n]", seg |-> i]

IsPlaceholder(t) == t.kind # "text"

NoResult == [index |-> -1, transcription |-> RealText(0), error |-> FALSE,
             duration |-> 0, language |-> "absent"]

\* what transcribe_single_segment returns for the 0-based index
WorkerResult(segment_index, seg, ok) ==
    IF ok
    THEN [index |-> segment_index, transcription |-> RealText(segment_index + 1),
          error |-> FALSE, duration |-> seg.end - seg.start, language |-> "es"]
    ELSE [index |-> segment_index, transcription |-> ErrorTextParallel(segment_index + 1),
          error |-> TRUE, duration |-> -1, language |-> "absent"]

\* one entry of the list transcribe_segments_parallel returns
ParallelEntry(i, result) ==
    [segment_number |-> i,
     text |-> result.transcription,
     language |-> IF result.language = "absent" THEN "unknown" ELSE result.language,
     duration |-> IF result.duration = -1 THEN 0 ELSE result.duration,
     error |-> FALSE]

\* "Combinar resultados en orden": the slots that are None are skipped
RECURSIVE CombineFrom(_, _)
CombineFrom(results, i) ==
    IF i > Len(results) THEN <<>>
    ELSE IF results[i].index = -1 THEN CombineFrom(results, i + 1)
    ELSE <<ParallelEntry(i, results[i])>> \o CombineFrom(results, i + 1)

\* a combination that leaves out the results carrying an error
CombineResultsWithoutErrors(results) ==
    LET kept == SelectSeq(results, LAMBDA x : x.index # -1 /\ ~x.error)
    IN  [i \in 1..Len(kept) |-> ParallelEntry(kept[i].index + 1, kept[i])]

CombineResults(results) == CombineFrom(results, 1)

\* one entry of the list the sequential loop of transcribe_segments appends
SequentialEntry(segment_num, seg, ok) ==
    IF ok
    THEN [segment_number |-> segment_num, text |-> RealText(segment_num),
          language |-> "es", duration |-> seg.end - seg.start, error |-> FALSE]
    ELSE [segment_number |-> segment_num, text |-> ErrorTextSequential(segment_num),
          language |-> "absent", duration |-> -1, error |-> TRUE]

\* full_text of the segmented path: every entry's text, in list order
FullText(data) == [i \in 1..Len(data) |-> data[i].text]

\* segments_info / transcription_segments: the entries without an 'error' key
RECURSIVE SegmentsInfo(_)
SegmentsInfo(data) ==
    IF data = <<>> THEN <<>>
    ELSE (IF Head(data).error THEN <<>> ELSE <<Head(data)>>) \o SegmentsInfo(Tail(data))

(***************************************************************************)
(* Progress percents.                                                      *)
(***************************************************************************)
\* int((completed_segments / total_segments) * 70) + 20
ParallelPercent(completed_segments, total_segments) ==
    (completed_segments * 70) \div total_segments + 20

\* 25 + int((i / total_segments) * 65), i the 0-based loop index
SequentialPercent(i, total_segments) == 25 + (i * 65) \div total_segments

\* min(50 + int((processed_duration / duration) * 40), 90), in 1/PdSteps of the duration
ShortPercent(q) == Min(50 + (q * 40) \div PdSteps, 90)

(***************************************************************************)
(* The engine cache.                                                       *)
(***************************************************************************)
\* get_model(model_name): every way the call can end, with the state it leaves
get_model(svc, cfg, model_name) ==
    LET same == [raised |-> FALSE, service |-> svc, CONFIG |-> cfg]
        loaded == [svc EXCEPT !.models = @ \cup {model_name}]
    IN  IF model_name = default_model /\ svc.preloaded THEN {same}
        ELSE IF model_name \in svc.models THEN {same}
        ELSE {[raised |-> FALSE, service |-> loaded, CONFIG |-> cfg]}
             \cup (IF cfg.device = "cuda"
                   THEN {[raised |-> FALSE, service |-> loaded,
                          CONFIG |-> [cfg EXCEPT !.device = "cpu", !.compute_type = "int8"]],
                         [raised |-> TRUE, service |-> svc, CONFIG |-> cfg]}
                   ELSE {[raised |-> TRUE, service |-> svc, CONFIG |-> cfg]})

\* use_segmentation of transcribe_audio
use_segmentation_inclusive(duration) == duration >= segment_threshold

use_segmentation(duration) == duration > segment_threshold

\* the exceptions model.transcribe raises: a CUDA/cuDNN error, any other error
EngineErrors == {"cuda", "other"}

\* 'cudnn' in error_msg.lower() or 'cuda' in error_msg.lower()
IsCudaError(e) == e = "cuda"

\* a budget of three attempts in robust mode
max_retries_of_three(cfg) == IF cfg.robust_mode THEN 3 ELSE 1

\* max_retries of the short path
max_retries(cfg) == IF cfg.robust_mode THEN 2 ELSE 1

(***************************************************************************)
(* Initial states.                                                         *)
(***************************************************************************)
Configs ==
    { [device |-> "cuda", compute_type |-> "float16", robust_mode |-> b] : b \in BOOLEAN }
    \cup { [device |-> "cpu", compute_type |-> "float32", robust_mode |-> b] : b \in BOOLEAN }

Services == { [preloaded |-> TRUE, models |-> {default_model}],
              [preloaded |-> FALSE, models |-> {}] }

(***************************************************************************)
(* generate_summary.  A text is the sequence of its pieces between dots    *)
(* (text.split('.')): 0 is a piece of nothing but whitespace, a positive   *)
(* number is the sentence the piece holds once stripped; padded says that  *)
(* the text begins or ends with whitespace.                                *)
(***************************************************************************)
Max(a, b) == IF a >= b THEN a ELSE b

Text(pieces, padded) == [pieces |-> pieces, padded |-> padded]

NoText == Text(<<0>>, FALSE)

\* text.strip()
strip(text) ==
    IF text.pieces = <<0>> THEN NoText
    ELSE [text EXCEPT !.padded = FALSE]

\* [s.strip() for s in text.split('.') if s.strip()]
SentencesOf(text) ==
    LET IsSentence(p) == p # 0 IN SelectSeq(text.pieces, IsSentence)

\* a summary as long as half the text
summary_length_of_half(total_sentences) == Max(3, total_sentences \div 2)

summary_length(total_sentences) == Max(3, Min(total_sentences \div 3, 10))

RECURSIVE MiddleFrom(_, _, _, _, _)
\* for i in range(i, middle_end, step): append sentences[i] while there is room
MiddleFrom(sentences, i, step, length, summary_sentences) ==
    IF i >= Len(sentences) - 1 THEN summary_sentences
    ELSE MiddleFrom(sentences, i + step, step, length,
                    IF Len(summary_sentences) < length - 1
                    THEN Append(summary_sentences, sentences[i + 1])
                    ELSE summary_sentences)

RECURSIVE Unique(_, _)
\* the sentences of a list in order, each at its first occurrence only
Unique(summary_sentences, unique_sentences) ==
    IF summary_sentences = <<>> THEN unique_sentences
    ELSE Unique(Tail(summary_sentences),
                IF \E k \in DOMAIN unique_sentences :
                      unique_sentences[k] = Head(summary_sentences)
                THEN unique_sentences
                ELSE Append(unique_sentences, Head(summary_sentences)))

NoSummary == [kind |-> "none", text |-> NoText, sentences |-> <<>>, total_sentences |-> 0]

generate_summary(text) ==
    LET stripped == strip(text)
        sentences == SentencesOf(stripped)
        total_sentences == Len(sentences)
        length == summary_length(total_sentences)
        middle_count == length - 3
        step == Max(1, ((total_sentences - 1) - 2) \div middle_count)
        first == SubSeq(sentences, 1, 2)
        middle == IF total_sentences > 5 /\ middle_count > 0
                  THEN MiddleFrom(sentences, 2, step, length, first)
                  ELSE first
        summary_sentences == Append(middle, sentences[total_sentences])
    IN  IF stripped = NoText
        THEN [NoSummary EXCEPT !.kind = "no_content"]
        ELSE IF total_sentences <= 3
        THEN [NoSummary EXCEPT !.kind = "text", !.text = stripped]
        ELSE [NoSummary EXCEPT !.kind = "summary",
                               !.sentences = Unique(summary_sentences, <<>>),
                               !.total_sentences = total_sentences]

\* A path is its directory, the pieces of its stem and its suffix.
Path(dir, stem, ext) == [dir |-> dir, stem |-> stem, ext |-> ext]

DefaultPath == Path(<<"uploads">>, <<"audio">>, ".mp3")

\* file_path.replace(Path(file_path).suffix, '_processed.wav')
processed_path(file_path) ==
    [file_path EXCEPT !.stem = Append(@, "_processed"), !.ext = ".wav"]

\* preprocess_audio: a .wav file is used as it is, any other file is
\* normalized into processed_path unless loading or writing fails.
preprocess_audio(file_path, written) ==
    IF written /\ file_path.ext # ".wav" THEN processed_path(file_path) ELSE file_path

\* segment_audio: <dirname>/../segments/<base_name>_segment_<i>.wav
segment_path(file_path, i) ==
    Path(file_path.dir \o <<"..", "segments">>, file_path.stem \o <<"_segment", i>>, ".wav")

\* transcribe_single_segment: segments/transcription_<segment base name>.txt
transcription_path(seg_path) ==
    Path(<<"segments">>, <<"transcription_">> \o seg_path.stem, ".txt")

Inputs(ids, files) ==
    [job_id : ids, file : files, model : {default_model}, generate_summary : BOOLEAN,
     engine_error : EngineErrors, path : {DefaultPath}]

NoInput == [job_id |-> "j1", file |-> NoFile, model |-> default_model,
            generate_summary |-> FALSE, engine_error |-> "cuda", path |-> DefaultPath]

NoLoc == [duration |-> 0, segment_paths |-> <<>>, i |-> 0, completed_segments |-> 0,
          results |-> <<>>, data |-> <<>>, segmented |-> FALSE, attempt |-> 0,
          pd |-> 0, updates |-> 0, exc |-> "none", last_error |-> "none",
          processed_path |-> DefaultPath]

NoResp == [kind |-> "none", transcription |-> <<>>, segments |-> <<>>, error |-> "none",
           language |-> "none", segments_count |-> 0, total_duration |-> 0]

NoObs == [get_model_calls |-> 0, transcribe_calls |-> 0, units |-> 0, engine_failed |-> {},
          segment_audio_calls |-> 0, processed |-> FALSE, segment_files |-> {},
          engine_loads |-> 0, engine_calls |-> {}, checks |-> <<>>,
          input_deleted |-> FALSE]

NoSweep == [n |-> 0, older_than |-> 0, cutoff_time |-> 0, removed |-> {}, again |-> FALSE,
            stage |-> "idle", size |-> 0, visited |-> {}, found |-> {}, failed |-> FALSE]

NoSegCall == [total_duration |-> 0, segment_duration |-> 0]
NoSegRet == [returned |-> FALSE, segments |-> <<>>]

InitService(cfgs, svcs) ==
    /\ transcription_progress = [j \in {} |-> NewProgress(0)]
    /\ CONFIG \in cfgs
    /\ service \in svcs
    /\ now = 0
    /\ loc = [r \in Reqs |-> NoLoc]
    /\ task = [r \in Reqs |-> <<>>]
    /\ resp = [r \in Reqs |-> NoResp]
    /\ obs = [r \in Reqs |-> NoObs]
    /\ sweep = NoSweep
    /\ dirty = TRUE

\* the configuration of an installation that sets nothing: a healthy GPU, ROBUST_MODE
\* at its default, the default model preloaded
DefaultConfig == [device |-> "cuda", compute_type |-> "float16", robust_mode |-> TRUE]
DefaultService == [preloaded |-> TRUE, models |-> {default_model}]

\* one request, any file
Init ==
    /\ InitService(Configs, Services)
    /\ pc = [r \in Reqs |-> IF r = 1 THEN "idle" ELSE "absent"]
    /\ \E x \in Inputs({"j1"}, InvalidFiles \cup ShortFiles \cup LongFiles) :
           inp = [r \in Reqs |-> IF r = 1 THEN x ELSE NoInput]
    /\ seg_call = NoSegCall
    /\ seg_ret = NoSegRet
    /\ summary_call = NoText
    /\ summary_ret = NoSummary

(***************************************************************************)
(* POST /transcribe and the job driver transcribe_audio.  Every step is    *)
(* one access of the driver thread to the progress map together with the   *)
(* call that follows it.  A KeyError of that access (the record is gone)   *)
(* is an exception inside the driver's try block.                          *)
(***************************************************************************)
\* every request writing under the job id of the first one
JobOfFirst(r) == inp[1].job_id

Job(r) == inp[r].job_id

Goto(r, p) == pc' = [pc EXCEPT ![r] = p]

\* beam_size of the model.transcribe call of each of the three call sites
short_beam_size(cfg) == IF cfg.device = "cuda" /\ ~cfg.robust_mode THEN 3 ELSE 1

sequential_beam_size(cfg) == IF cfg.robust_mode THEN 1 ELSE 5

parallel_beam_size(cfg) == 5

\* the beam size of the conservative preset
ConservativeBeam == 1

\* what is remembered of one model.transcribe call: its beam size and the
\* configuration it was made under
EngineCall(beam_size, cfg) ==
    [beam_size |-> beam_size, device |-> cfg.device, robust_mode |-> cfg.robust_mode]

\* The number of engines an outcome of get_model has constructed and cached.
EngineLoads(o) == IF o.service.models # service.models THEN 1 ELSE 0

Raise(r, e) ==
    /\ pc' = [pc EXCEPT ![r] = "except"]
    /\ loc' = [loc EXCEPT ![r].exc = e]

KeyError(r) ==
    /\ Raise(r, "KeyError")
    /\ UNCHANGED <<transcription_progress, dirty>>

\* the handler reads the body; transcribe_audio stores the job's fresh record
Transcribe(r) ==
    /\ pc[r] = "idle"
    /\ SetProgress(Insert(transcription_progress, Job(r), NewProgress(now)))
    /\ Goto(r, "validate")
    /\ UNCHANGED <<CONFIG, service, now, inp, loc, task, resp, obs, sweep, segvars>>

Validate(r) ==
    /\ pc[r] = "validate"
    /\ IF Has(Job(r))
       THEN /\ SetProgress(Put(transcription_progress, Job(r),
                   [stage |-> "Validando archivo de audio...", progress |-> 5]))
            /\ IF validate_audio_file(inp[r].file) = "ok"
               THEN /\ Goto(r, "preprocess")
                    /\ loc' = [loc EXCEPT ![r].duration = inp[r].file.duration]
               ELSE Raise(r, validate_audio_file(inp[r].file))
            /\ obs' = [obs EXCEPT ![r].checks = validation_checks(inp[r].file)]
       ELSE /\ KeyError(r)
            /\ UNCHANGED obs
    /\ UNCHANGED <<CONFIG, service, now, inp, task, resp, sweep, segvars>>

Preprocess(r) ==
    /\ pc[r] = "preprocess"
    /\ IF Has(Job(r))
       THEN /\ SetProgress(Put(transcription_progress, Job(r),
                   [stage |-> "Preprocesando audio...", progress |-> 10]))
            /\ Goto(r, "load")
            /\ \E written \in (IF inp[r].path.ext = ".wav" THEN {FALSE} ELSE BOOLEAN) :
                  /\ obs' = [obs EXCEPT ![r].processed = written]
                  /\ loc' = [loc EXCEPT
                                ![r].processed_path = preprocess_audio(inp[r].path, written)]
       ELSE /\ KeyError(r)
            /\ UNCHANGED obs
    /\ UNCHANGED <<CONFIG, service, now, inp, task, resp, sweep, segvars>>

LoadModel(r) ==
    /\ pc[r] = "load"
    /\ IF Has(Job(r))
       THEN /\ SetProgress(Put(transcription_progress, Job(r),
                   [stage |-> "Cargando modelo...", progress |-> 20]))
            /\ \E o \in get_model(service, CONFIG, inp[r].model) :
                  /\ service' = o.service
                  /\ obs' = [obs EXCEPT ![r].get_model_calls = @ + 1,
                                        ![r].engine_loads = @ + EngineLoads(o)]
                  /\ CONFIG' = o.CONFIG
                  /\ IF o.raised
                     THEN Raise(r, "EngineLoadError")
                     ELSE /\ Goto(r, IF use_segmentation(loc[r].duration)
                                     THEN "segment" ELSE "short_start")
                          /\ UNCHANGED loc
       ELSE /\ KeyError(r)
            /\ UNCHANGED <<CONFIG, service, obs>>
    /\ UNCHANGED <<now, inp, task, resp, sweep, segvars>>

\* a fallback to the first segment file instead of the file given
FirstSegmentFile(duration) == [seg |-> 1, start |-> 0, end |-> Min(segment_length, duration)]

\* the unit of work segment_audio falls back to: the file it was given
WholeFile(duration) == [seg |-> 0, start |-> 0, end |-> duration]

SegmentPaths(duration) ==
    LET cut == segment_audio(duration, segment_length)
    IN  [i \in 1..Len(cut) |-> [seg |-> i, start |-> cut[i].start, end |-> cut[i].end]]

\* segment_audio writes its files one after the other; when it fails after `written`
\* of them it returns the file it was given and leaves those it wrote
Segment(r) ==
    /\ pc[r] = "segment"
    /\ IF Has(Job(r))
       THEN /\ SetProgress(Put(transcription_progress, Job(r),
                   [stage |-> "Segmentando audio...", progress |-> 22]))
            /\ \E written \in 0..Len(SegmentPaths(loc[r].duration)) :
                  LET all == SegmentPaths(loc[r].duration)
                      paths == IF written = Len(all) THEN all
                               ELSE <<WholeFile(loc[r].duration)>>
                  IN  /\ loc' = [loc EXCEPT ![r].segment_paths = paths, ![r].segmented = TRUE]
                      /\ obs' = [obs EXCEPT ![r].segment_audio_calls = @ + 1,
                                            ![r].segment_files = 1..written]
            /\ Goto(r, "segmented")
       ELSE /\ KeyError(r)
            /\ UNCHANGED obs
    /\ UNCHANGED <<CONFIG, service, now, inp, task, resp, sweep, segvars>>

\* a task the pool never schedules
LostTask == [st |-> "lost", percent |-> 0, res |-> NoResult]

QueuedTask == [st |-> "queued", percent |-> 0, res |-> NoResult]

\* the update after segment_audio, then the entry of transcribe_segments
Segmented(r) ==
    /\ pc[r] = "segmented"
    /\ IF Has(Job(r))
       THEN LET n == Len(loc[r].segment_paths) IN
            /\ SetProgress(Put(transcription_progress, Job(r),
                   [total_segments |-> n, stage |-> "Audio segmentado", progress |-> 25,
                    status |-> "transcribiendo"]))
            /\ IF n > 1 /\ high_memory_mode
               THEN /\ Goto(r, "parallel")
                    /\ task' = [task EXCEPT ![r] = [i \in 1..n |-> QueuedTask]]
                    /\ loc' = [loc EXCEPT ![r].completed_segments = 0,
                                          ![r].results = [i \in 1..n |-> NoResult]]
               ELSE /\ Goto(r, "sequential")
                    /\ loc' = [loc EXCEPT ![r].i = 0, ![r].data = <<>>]
                    /\ UNCHANGED task
       ELSE /\ KeyError(r)
            /\ UNCHANGED task
    /\ obs' = [obs EXCEPT ![r].units = IF Has(Job(r)) THEN Len(loc[r].segment_paths) ELSE @]
    /\ UNCHANGED <<CONFIG, service, now, inp, resp, sweep, segvars>>

(***************************************************************************)
(* transcribe_segments_parallel: the tasks of the ThreadPoolExecutor and   *)
(* the as_completed loop of the driver thread.  The tasks are indexed      *)
(* 1..N here; the code's segment_index is the index minus one.             *)
(***************************************************************************)
\* a pool that counts no thread as busy
RunningNone(r) == {}

\* the tasks a pool thread is running
Running(r) == {i \in DOMAIN task[r] : task[r][i].st \in {"started", "wrote"}}

\* a pool thread takes the next queued task and reads completed_segments for the percent
TaskStart(r, i) ==
    /\ pc[r] = "parallel"
    /\ i \in DOMAIN task[r]
    /\ task[r][i].st = "queued"
    /\ \A k \in 1..(i - 1) : task[r][k].st # "queued"
    /\ Cardinality(Running(r)) < parallel_workers
    /\ task' = [task EXCEPT ![r][i].st = "started",
                            ![r][i].percent = ParallelPercent(loc[r].completed_segments,
                                                              Len(task[r]))]
    /\ UNCHANGED <<transcription_progress, dirty, CONFIG, service, now, pc, inp, loc,
                   resp, obs, sweep, segvars>>

\* the task's four writes to the job's record; a KeyError ends the task in its except branch
TaskWrite(r, i) ==
    /\ pc[r] = "parallel"
    /\ i \in DOMAIN task[r]
    /\ task[r][i].st = "started"
    /\ IF Has(Job(r))
       THEN /\ SetProgress(Put(transcription_progress, Job(r),
                   [progress |-> task[r][i].percent,
                    segments_completed |-> loc[r].completed_segments,
                    segments_total |-> Len(task[r])]))
            /\ task' = [task EXCEPT ![r][i].st = "wrote"]
       ELSE /\ task' = [task EXCEPT ![r][i].st = "done",
                          ![r][i].res = WorkerResult(i - 1, loc[r].segment_paths[i], FALSE)]
            /\ UNCHANGED <<transcription_progress, dirty>>
    /\ UNCHANGED <<CONFIG, service, now, pc, inp, loc, resp, obs, sweep, segvars>>

\* model.transcribe on the segment, the transcript file, the returned dict
TaskTranscribe(r, i) ==
    /\ pc[r] = "parallel"
    /\ i \in DOMAIN task[r]
    /\ task[r][i].st = "wrote"
    /\ \E ok \in BOOLEAN :
          /\ task' = [task EXCEPT ![r][i].st = "done",
                        ![r][i].res = WorkerResult(i - 1, loc[r].segment_paths[i], ok)]
          /\ obs' = [obs EXCEPT ![r].transcribe_calls = @ + 1,
                                ![r].engine_failed = IF ok THEN @ ELSE @ \cup {i},
                                ![r].engine_calls =
                                    @ \cup {EngineCall(parallel_beam_size(CONFIG), CONFIG)}]
    /\ UNCHANGED <<transcription_progress, dirty, CONFIG, service, now, pc, inp, loc,
                   resp, sweep, segvars>>

\* results[result['index']] = result
StoreResult(results, result) == [results EXCEPT ![result.index + 1] = result]

\* one round of the as_completed loop, on a future that has finished
Collect(r, i) ==
    /\ pc[r] = "parallel"
    /\ i \in DOMAIN task[r]
    /\ task[r][i].st = "done"
    /\ task' = [task EXCEPT ![r][i].st = "collected"]
    /\ loc' = [loc EXCEPT ![r].results = StoreResult(@, task[r][i].res),
                          ![r].completed_segments = @ + 1]
    /\ IF Has(Job(r))
       THEN SetProgress(Put(transcription_progress, Job(r),
                [progress |-> ParallelPercent(loc[r].completed_segments + 1, Len(task[r])),
                 segments_completed |-> loc[r].completed_segments + 1]))
       ELSE UNCHANGED <<transcription_progress, dirty>>
    /\ UNCHANGED <<CONFIG, service, now, pc, inp, resp, obs, sweep, segvars>>

\* the pool is shut down and the results are combined in order
Combine(r) ==
    /\ pc[r] = "parallel"
    /\ \A i \in DOMAIN task[r] : task[r][i].st = "collected"
    /\ loc' = [loc EXCEPT ![r].data = CombineResults(loc[r].results)]
    /\ Goto(r, "assemble")
    /\ UNCHANGED <<transcription_progress, dirty, CONFIG, service, now, inp, task, resp,
                   obs, sweep, segvars>>

(***************************************************************************)
(* transcribe_segments, sequential loop: one round per step.  loc.i is the *)
(* 0-based loop index.  A KeyError of the update is caught by the round's  *)
(* own except branch, like an engine failure.                              *)
(***************************************************************************)
SeqSegment(r) ==
    /\ pc[r] = "sequential"
    /\ LET n == Len(loc[r].segment_paths)
           i == loc[r].i
           seg == loc[r].segment_paths[i + 1]
       IN  /\ i < n
           /\ IF Has(Job(r))
              THEN /\ SetProgress(Put(transcription_progress, Job(r),
                          [stage |-> "Transcribiendo segmento", progress |-> SequentialPercent(i, n),
                           current_segment |-> i + 1, total_segments |-> n]))
                   /\ \E ok \in BOOLEAN :
                         /\ loc' = [loc EXCEPT ![r].i = i + 1,
                                      ![r].data = Append(@, SequentialEntry(i + 1, seg, ok))]
                         /\ obs' = [obs EXCEPT ![r].transcribe_calls = @ + 1,
                                      ![r].engine_failed = IF ok THEN @ ELSE @ \cup {i + 1},
                                      ![r].engine_calls =
                                          @ \cup {EngineCall(sequential_beam_size(CONFIG),
                                                             CONFIG)}]
              ELSE /\ loc' = [loc EXCEPT ![r].i = i + 1,
                                ![r].data = Append(@, SequentialEntry(i + 1, seg, FALSE))]
                   /\ UNCHANGED <<transcription_progress, dirty, obs>>
           /\ Goto(r, IF i + 1 = n THEN "assemble" ELSE "sequential")
    /\ UNCHANGED <<CONFIG, service, now, inp, task, resp, sweep, segvars>>

(***************************************************************************)
(* The driver after the scheduler: assembly, summary, segment cleanup.     *)
(***************************************************************************)
Assemble(r) ==
    /\ pc[r] = "assemble"
    /\ IF Has(Job(r))
       THEN /\ SetProgress(Put(transcription_progress, Job(r),
                   [stage |-> "Combinando transcripciones...", progress |-> 90]))
            /\ Goto(r, IF inp[r].generate_summary THEN "summary" ELSE "cleanup_segments")
            /\ UNCHANGED loc
       ELSE KeyError(r)
    /\ UNCHANGED <<CONFIG, service, now, inp, task, resp, obs, sweep, segvars>>

Summary(r) ==
    /\ pc[r] = "summary"
    /\ IF Has(Job(r))
       THEN /\ SetProgress(Put(transcription_progress, Job(r),
                   [stage |-> "Generando resumen automatico...", progress |-> 92]))
            /\ Goto(r, "cleanup_segments")
            /\ UNCHANGED loc
       ELSE KeyError(r)
    /\ UNCHANGED <<CONFIG, service, now, inp, task, resp, obs, sweep, segvars>>

\* cleanup_segments(segment_paths): os.remove of every path of the list; the unit 0 is
\* the file segment_audio was given, which is the file preprocess_audio returned:
\* the normalized file, or the caller's file when given_is_source
cleanup_segments(segment_paths, files, given_is_source) ==
    LET listed == {segment_paths[i].seg : i \in 1..Len(segment_paths)}
    IN  [processed |-> files.processed /\ 0 \notin listed,
         segment_files |-> files.segment_files \ listed,
         input_deleted |-> files.input_deleted \/ (0 \in listed /\ given_is_source)]

CleanupSegments(r) ==
    /\ pc[r] = "cleanup_segments"
    /\ IF Has(Job(r))
       THEN /\ SetProgress(Put(transcription_progress, Job(r),
                   [stage |-> "Limpiando archivos temporales...", progress |-> 95]))
            /\ Goto(r, "finalize")
            /\ LET left == cleanup_segments(loc[r].segment_paths, obs[r],
                                            loc[r].processed_path = inp[r].path)
               IN  obs' = [obs EXCEPT ![r].processed = left.processed,
                                      ![r].segment_files = left.segment_files,
                                      ![r].input_deleted = left.input_deleted]
            /\ UNCHANGED loc
       ELSE /\ KeyError(r)
            /\ UNCHANGED obs
    /\ UNCHANGED <<CONFIG, service, now, inp, task, resp, sweep, segvars>>

(***************************************************************************)
(* The short path: the retry loop around model.transcribe and the loop     *)
(* over the engine's segments.                                             *)
(***************************************************************************)
ShortStart(r) ==
    /\ pc[r] = "short_start"
    /\ IF Has(Job(r))
       THEN /\ SetProgress(Put(transcription_progress, Job(r),
                   [stage |-> "Iniciando transcripcion...", progress |-> 25,
                    status |-> "transcribiendo"]))
            /\ Goto(r, "attempt")
            /\ loc' = [loc EXCEPT ![r].attempt = 0]
       ELSE KeyError(r)
    /\ UNCHANGED <<CONFIG, service, now, inp, task, resp, obs, sweep, segvars>>

\* the except branch of one round of the retry loop, for the exception e
AttemptFailed(r, e, cfg) ==
    LET attempt == loc[r].attempt IN
    IF attempt < max_retries(cfg) - 1 /\ IsCudaError(e)
    THEN /\ CONFIG' = [cfg EXCEPT !.device = "cpu"]
         /\ loc' = [loc EXCEPT ![r].attempt = attempt + 1, ![r].last_error = e]
         /\ UNCHANGED pc
    ELSE IF attempt = max_retries(cfg) - 1
    THEN /\ CONFIG' = cfg
         /\ pc' = [pc EXCEPT ![r] = "except"]
         /\ loc' = [loc EXCEPT ![r].exc = e, ![r].last_error = e]
    ELSE /\ CONFIG' = cfg
         /\ loc' = [loc EXCEPT ![r].attempt = attempt + 1, ![r].last_error = e]
         /\ UNCHANGED pc

\* one round of "for attempt in range(max_retries)"
Attempt(r) ==
    /\ pc[r] = "attempt"
    /\ LET attempt == loc[r].attempt
           reload == attempt > 0 /\ CONFIG.device = "cuda" /\ attempt = 1
       IN  IF attempt > 0 /\ ~Has(Job(r))
           THEN /\ AttemptFailed(r, "KeyError", CONFIG)
                /\ UNCHANGED <<transcription_progress, dirty, service, obs>>
           ELSE /\ IF attempt > 0
                   THEN SetProgress(Put(transcription_progress, Job(r),
                            [stage |-> "Reintentando transcripcion..."]))
                   ELSE UNCHANGED <<transcription_progress, dirty>>
                /\ \E o \in (IF reload THEN get_model(service, CONFIG, inp[r].model)
                             ELSE {[raised |-> FALSE, service |-> service, CONFIG |-> CONFIG]}) :
                      /\ service' = o.service
                      /\ IF o.raised
                         THEN /\ AttemptFailed(r, "EngineLoadError", o.CONFIG)
                              /\ obs' = [obs EXCEPT ![r].get_model_calls = @ + 1]
                         ELSE /\ obs' = [obs EXCEPT
                                    ![r].get_model_calls = @ + (IF reload THEN 1 ELSE 0),
                                    ![r].engine_loads = @ + EngineLoads(o),
                                    ![r].transcribe_calls = @ + 1,
                                    ![r].engine_calls =
                                        @ \cup {EngineCall(short_beam_size(o.CONFIG),
                                                           o.CONFIG)}]
                              /\ \E e \in {"ok"} \cup EngineErrors :
                                    IF e = "ok"
                                    THEN /\ Goto(r, "short_process")
                                         /\ CONFIG' = o.CONFIG
                                         /\ UNCHANGED loc
                                    ELSE AttemptFailed(r, e, o.CONFIG)
    /\ UNCHANGED <<now, inp, task, resp, sweep, segvars>>

ShortProcess(r) ==
    /\ pc[r] = "short_process"
    /\ IF Has(Job(r))
       THEN /\ SetProgress(Put(transcription_progress, Job(r),
                   [stage |-> "Procesando segmentos...", progress |-> 50,
                    status |-> "transcribiendo"]))
            /\ Goto(r, "short_loop")
            /\ loc' = [loc EXCEPT ![r].pd = 0, ![r].updates = 0]
       ELSE KeyError(r)
    /\ UNCHANGED <<CONFIG, service, now, inp, task, resp, obs, sweep, segvars>>

\* a round "i % 10 == 0" of the loop over the engine's segments: processed_duration
\* has grown to q/PdSteps of the duration
ShortLoopUpdate(r) ==
    /\ pc[r] = "short_loop"
    /\ loc[r].updates < MaxLoopUpdates
    /\ IF Has(Job(r))
       THEN \E q \in loc[r].pd..PdSteps :
               /\ SetProgress(Put(transcription_progress, Job(r),
                      [progress |-> ShortPercent(q), current_segment |-> loc[r].updates * 10 + 1]))
               /\ loc' = [loc EXCEPT ![r].pd = q, ![r].updates = @ + 1]
               /\ UNCHANGED pc
       ELSE KeyError(r)
    /\ UNCHANGED <<CONFIG, service, now, inp, task, resp, obs, sweep, segvars>>

(***************************************************************************)
(* The common end of the driver, and its except branch.                    *)
(***************************************************************************)
Finalize(r) ==
    /\ pc[r] \in {"finalize", "short_loop"}
    /\ IF Has(Job(r))
       THEN /\ SetProgress(Put(transcription_progress, Job(r),
                   [stage |-> "Finalizando...", progress |-> 95]))
            /\ Goto(r, IF inp[r].generate_summary /\ ~loc[r].segmented
                       THEN "summary_short" ELSE "complete")
            /\ loc' = [loc EXCEPT ![r].pd = 0, ![r].updates = 0, ![r].attempt = 0,
                                  ![r].last_error = "none"]
            /\ obs' = [obs EXCEPT ![r].processed = FALSE]
       ELSE /\ KeyError(r)
            /\ UNCHANGED obs
    /\ UNCHANGED <<CONFIG, service, now, inp, task, resp, sweep, segvars>>

SummaryShort(r) ==
    /\ pc[r] = "summary_short"
    /\ IF Has(Job(r))
       THEN /\ SetProgress(Put(transcription_progress, Job(r),
                   [stage |-> "Generando resumen...", progress |-> 97]))
            /\ Goto(r, "complete")
            /\ UNCHANGED loc
       ELSE KeyError(r)
    /\ UNCHANGED <<CONFIG, service, now, inp, task, resp, obs, sweep, segvars>>

\* transcription_segments of the segmented path
RECURSIVE TimedFrom(_, _, _)
TimedFrom(data, i, duration) ==
    IF i > Len(data) THEN <<>>
    ELSE (IF data[i].error THEN <<>>
          ELSE <<[start |-> (i - 1) * 300, end |-> Min(i * 300, duration),
                  text |-> data[i].text]>>)
         \o TimedFrom(data, i + 1, duration)

\* total_duration of the segmented path: the durations of the entries that have no
\* 'error' key
RECURSIVE TotalDuration(_)
TotalDuration(data) ==
    IF data = <<>> THEN 0
    ELSE (IF Head(data).error THEN 0 ELSE Head(data).duration) + TotalDuration(Tail(data))

\* the result dict of a successful job
\* info.language of a segmented job: that of the first entry that has no
\* 'error' key
ReportedLanguage(data) ==
    IF SegmentsInfo(data) = <<>> THEN "unknown" ELSE SegmentsInfo(data)[1].language

Result(r) ==
    IF loc[r].segmented
    THEN [kind |-> "success", transcription |-> FullText(loc[r].data),
          segments |-> TimedFrom(loc[r].data, 1, loc[r].duration), error |-> "none",
          language |-> ReportedLanguage(loc[r].data),
          segments_count |-> Len(TimedFrom(loc[r].data, 1, loc[r].duration)),
          total_duration |-> TotalDuration(loc[r].data)]
    ELSE [kind |-> "success", transcription |-> <<RealText(0)>>,
          segments |-> <<>>, error |-> "none", language |-> "es",
          segments_count |-> 0, total_duration |-> 0]

Complete(r) ==
    /\ pc[r] = "complete"
    /\ IF Has(Job(r))
       THEN /\ SetProgress(Put(transcription_progress, Job(r),
                   [status |-> "completado", progress |-> 100,
                    stage |-> "Transcripcion completada"]))
            /\ Goto(r, "done")
            /\ resp' = [resp EXCEPT ![r] = Result(r)]
            /\ loc' = [loc EXCEPT ![r] = NoLoc]
            /\ task' = [task EXCEPT ![r] = <<>>]
       ELSE /\ KeyError(r)
            /\ UNCHANGED <<resp, task>>
    /\ UNCHANGED <<CONFIG, service, now, inp, obs, sweep, segvars>>

\* "except Exception as e" of transcribe_audio; when its own update raises KeyError the
\* exception leaves transcribe_audio and the handler of /transcribe answers 500.
\* Either way the call returns and its locals are gone.
Except(r) ==
    /\ pc[r] = "except"
    /\ IF Has(Job(r))
       THEN /\ SetProgress(Put(transcription_progress, Job(r),
                   [status |-> "error", stage |-> "Error", error |-> loc[r].exc]))
            /\ resp' = [resp EXCEPT ![r] = [NoResp EXCEPT !.kind = "failure",
                                                          !.error = loc[r].exc]]
       ELSE /\ resp' = [resp EXCEPT ![r] = [NoResp EXCEPT !.kind = "escaped",
                                                          !.error = "KeyError"]]
            /\ UNCHANGED <<transcription_progress, dirty>>
    /\ Goto(r, "done")
    /\ loc' = [loc EXCEPT ![r] = NoLoc]
    /\ task' = [task EXCEPT ![r] = <<>>]
    /\ UNCHANGED <<CONFIG, service, now, inp, obs, sweep, segvars>>

(***************************************************************************)
(* The clock and POST /cleanup.  older_than is older_than_minutes * 60 in  *)
(* clock units.                                                            *)
(***************************************************************************)
Tick ==
    /\ now < MaxTime
    /\ now' = now + 1
    /\ UNCHANGED <<transcription_progress, dirty, CONFIG, service, reqvars, sweep, segvars>>

OlderThan == {0, 1}

\* a selection by age alone
jobs_to_remove_by_age(P, cutoff_time) ==
    {j \in DOMAIN P : P[j].start_time < cutoff_time}

\* jobs_to_remove of cleanup_jobs
jobs_to_remove(P, cutoff_time) ==
    {j \in DOMAIN P : P[j].status \in {"completado", "error"} /\ P[j].start_time < cutoff_time}

\* sweep.n alternates between 0 and 1, so that every call changes it; sweep.removed is
\* removed_job_ids of the answer; sweep.again tells that the call came right after
\* another one with the same cutoff_time, no record having changed status in between
cleanup_jobs(older_than) ==
    /\ sweep.stage = "idle"
    /\ LET cutoff_time == now - older_than
           removed == jobs_to_remove(transcription_progress, cutoff_time)
       IN  /\ transcription_progress' = Delete(transcription_progress, removed)
           /\ sweep' = [NoSweep EXCEPT !.n = 1 - sweep.n, !.older_than = older_than,
                                       !.cutoff_time = cutoff_time, !.removed = removed,
                                       !.again = (~dirty /\ cutoff_time = sweep.cutoff_time)]
    /\ dirty' = FALSE
    /\ UNCHANGED <<CONFIG, service, now, reqvars, segvars>>

(***************************************************************************)
(* POST /cleanup step by step, as the handler thread runs it while the     *)
(* threads of other requests run: the loop over                            *)
(* transcription_progress.items(), then the loop of the del statements.    *)
(* A dict iterator raises RuntimeError ("dictionary changed size during    *)
(* iteration") from the next() that finds a size other than the size the   *)
(* dict had when the loop began; the handler answers 500 then.             *)
(***************************************************************************)
\* one next() of the iterator and the loop body on the item it yields: the states in
\* which it can leave the sweep sw
IterNext(sw) ==
    IF Cardinality(DOMAIN transcription_progress) # sw.size
    THEN {[sw EXCEPT !.stage = "idle", !.n = 1 - @, !.failed = TRUE]}
    ELSE IF DOMAIN transcription_progress \subseteq sw.visited
    THEN {[sw EXCEPT !.stage = "deleting"]}
    ELSE {[sw EXCEPT !.visited = @ \cup {j},
                     !.found = @ \cup jobs_to_remove([k \in {j} |-> transcription_progress[k]],
                                                    sw.cutoff_time)] :
             j \in DOMAIN transcription_progress \ sw.visited}

\* current_time, cutoff_time, the iterator of the for loop and its first next()
SweepBegin(older_than) ==
    /\ sweep.stage = "idle"
    /\ sweep' \in IterNext([NoSweep EXCEPT
                               !.n = sweep.n, !.older_than = older_than,
                               !.cutoff_time = now - older_than, !.stage = "iterating",
                               !.size = Cardinality(DOMAIN transcription_progress)])
    /\ UNCHANGED <<transcription_progress, dirty, CONFIG, service, now, reqvars, segvars>>

\* a later round of the for loop
SweepNext ==
    /\ sweep.stage = "iterating"
    /\ sweep' \in IterNext(sweep)
    /\ UNCHANGED <<transcription_progress, dirty, CONFIG, service, now, reqvars, segvars>>

\* "for job_id in jobs_to_remove: del transcription_progress[job_id]" and the answer
SweepDelete ==
    /\ sweep.stage = "deleting"
    /\ IF sweep.found \subseteq DOMAIN transcription_progress
       THEN /\ transcription_progress' = Delete(transcription_progress, sweep.found)
            /\ sweep' = [sweep EXCEPT !.stage = "idle", !.n = 1 - @, !.removed = sweep.found]
       ELSE /\ transcription_progress' =
                   Delete(transcription_progress, sweep.found \cap DOMAIN transcription_progress)
            /\ sweep' = [sweep EXCEPT !.stage = "idle", !.n = 1 - @, !.failed = TRUE]
    /\ dirty' = FALSE
    /\ UNCHANGED <<CONFIG, service, now, reqvars, segvars>>

(***************************************************************************)
(* segment_audio called on its own.                                        *)
(***************************************************************************)
SegmentAudioCall ==
    /\ ~seg_ret.returned
    /\ seg_call.segment_duration > 0
    /\ seg_ret' = [returned |-> TRUE,
                   segments |-> segment_audio(seg_call.total_duration,
                                              seg_call.segment_duration)]
    /\ UNCHANGED <<transcription_progress, dirty, CONFIG, service, now, reqvars, sweep,
                   seg_call, summary_call, summary_ret>>

\* generate_summary called on its own
GenerateSummaryCall ==
    /\ summary_ret.kind = "none"
    /\ summary_ret' = generate_summary(summary_call)
    /\ UNCHANGED <<transcription_progress, dirty, CONFIG, service, now, reqvars, sweep,
                   seg_call, seg_ret, summary_call>>

(***************************************************************************)
(* get_model statement by statement: the callers of SpecModel.             *)
(***************************************************************************)
ModelNames == {default_model, "small"}

\* a model_lock nobody ever holds
LockHeldByNone(r) == {}

\* The other callers inside "with self.model_lock" when r asks for the lock.
\* A caller who finds its model cached leaves the block in the step that
\* enters it, so the block is occupied only by a caller constructing an
\* engine.
LockHeldBy(r) == {q \in Reqs \ {r} : pc[q] = "gm_loading"}

\* The call and the test of the preloaded engine, outside the lock.
GetModelEnter(r) ==
    /\ pc[r] = "gm_call"
    /\ obs' = [obs EXCEPT ![r].get_model_calls = @ + 1]
    /\ Goto(r, IF inp[r].model = default_model /\ service.preloaded
               THEN "gm_return" ELSE "gm_wait")
    /\ UNCHANGED <<transcription_progress, dirty, CONFIG, service, now, inp, loc, task,
                   resp, sweep, segvars>>

\* The lock is taken once it is free; a cached model is returned at once.
GetModelAcquire(r) ==
    /\ pc[r] = "gm_wait"
    /\ LockHeldBy(r) = {}
    /\ Goto(r, IF inp[r].model \in service.models THEN "gm_return" ELSE "gm_loading")
    /\ UNCHANGED <<transcription_progress, dirty, CONFIG, service, now, inp, loc, task,
                   resp, obs, sweep, segvars>>

\* The engine is constructed under the lock, on the configured device or on
\* the CPU after a failure on CUDA, or the construction fails for good.
GetModelLoad(r) ==
    /\ pc[r] = "gm_loading"
    /\ \E o \in get_model(service, CONFIG, inp[r].model) :
          /\ service' = o.service
          /\ CONFIG' = o.CONFIG
          /\ obs' = [obs EXCEPT ![r].engine_loads = @ + EngineLoads(o)]
          /\ Goto(r, IF o.raised THEN "gm_raised" ELSE "gm_return")
    /\ UNCHANGED <<transcription_progress, dirty, now, inp, loc, task, resp, sweep,
                   segvars>>

InitSeg ==
    /\ InitService({[device |-> "cpu", compute_type |-> "float32", robust_mode |-> TRUE]},
                   {[preloaded |-> TRUE, models |-> {default_model}]})
    /\ pc = [r \in Reqs |-> "absent"]
    /\ inp = [r \in Reqs |-> NoInput]
    /\ seg_call \in [total_duration : (1..MaxDuration) \cup {1205},
                     segment_duration : (1..MaxLength) \cup {segment_length}]
    /\ seg_ret = NoSegRet
    /\ summary_call = NoText
    /\ summary_ret = NoSummary

\* the requests of SpecShared: the first is for job j1, on a short or a missing file,
\* the others are for any job id, on a missing file
SharedInputs(r) ==
    { x \in Inputs(JobIds, {File(FALSE, FALSE, TRUE, TRUE, 0)} \cup ShortFiles) :
        /\ r = 1 => x.job_id = "j1"
        /\ r # 1 => ~x.file.exists
        /\ ~x.generate_summary
        /\ x.engine_error = "cuda" }

InitShared ==
    /\ InitService({DefaultConfig}, {DefaultService})
    /\ pc = [r \in Reqs |-> "idle"]
    /\ inp \in {f \in [Reqs -> Inputs(JobIds, InvalidFiles \cup ShortFiles)] :
                   \A r \in Reqs : f[r] \in SharedInputs(r)}
    /\ seg_call = NoSegCall
    /\ seg_ret = NoSegRet
    /\ summary_call = NoText
    /\ summary_ret = NoSummary

\* the requests of SpecSweep: both on a missing file
InitSweep ==
    /\ InitService({DefaultConfig}, {DefaultService})
    /\ pc = [r \in Reqs |-> "idle"]
    /\ inp \in {f \in [Reqs -> Inputs(JobIds, InvalidFiles)] :
                   \A r \in Reqs : f[r] \in SharedInputs(r) /\ ~f[r].file.exists}
    /\ seg_call = NoSegCall
    /\ seg_ret = NoSegRet
    /\ summary_call = NoText
    /\ summary_ret = NoSummary

\* the request of SpecPool: a file of MaxPoolSegments segments, no summary
InitPool ==
    /\ InitService({DefaultConfig}, {DefaultService})
    /\ pc = [r \in Reqs |-> IF r = 1 THEN "idle" ELSE "absent"]
    /\ inp = [r \in Reqs |->
                 IF r = 1
                 THEN [job_id |-> "j1",
                       file |-> File(TRUE, FALSE, TRUE, TRUE,
                                     (MaxPoolSegments - 1) * segment_length + 5),
                       model |-> default_model, generate_summary |-> FALSE,
                       engine_error |-> "cuda", path |-> DefaultPath]
                 ELSE NoInput]
    /\ seg_call = NoSegCall
    /\ seg_ret = NoSegRet
    /\ summary_call = NoText
    /\ summary_ret = NoSummary

\* the request of SpecLive: any input, on the default installation with the
\* default model preloaded or not
InitLive ==
    /\ InitService({DefaultConfig}, Services)
    /\ pc = [r \in Reqs |-> IF r = 1 THEN "idle" ELSE "absent"]
    /\ \E x \in Inputs({"j1"}, InvalidFiles \cup ShortFiles
                                  \cup {f \in LongFiles :
                                           f.duration < MaxLiveSegments * segment_length}) :
           inp = [r \in Reqs |-> IF r = 1 THEN x ELSE NoInput]
    /\ seg_call = NoSegCall
    /\ seg_ret = NoSegRet
    /\ summary_call = NoText
    /\ summary_ret = NoSummary

\* the callers of SpecModel: any configuration, the preload done or failed
InitModel ==
    /\ InitService(Configs, Services)
    /\ pc = [r \in Reqs |-> "gm_call"]
    /\ inp \in [Reqs -> {[NoInput EXCEPT !.model = m] : m \in ModelNames}]
    /\ seg_call = NoSegCall
    /\ seg_ret = NoSegRet
    /\ summary_call = NoText
    /\ summary_ret = NoSummary

\* the source files of SpecFiles, all in one upload directory
SourcePaths ==
    { Path(<<"uploads">>, <<"x">>, ".mp3"), Path(<<"uploads">>, <<"x">>, ".m4a"),
      Path(<<"uploads">>, <<"y">>, ".wav") }

\* os.path.basename of a path: stem and suffix
basename(file_path) == <<file_path.stem, file_path.ext>>

\* the requests of SpecFiles: distinct job ids, two-segment files, distinct names
InitFiles ==
    /\ InitService({DefaultConfig}, {DefaultService})
    /\ pc = [r \in Reqs |-> "idle"]
    /\ inp \in {f \in [Reqs -> [job_id : JobIds,
                                 file : {File(TRUE, FALSE, TRUE, TRUE, segment_length + 5)},
                                 model : {default_model}, generate_summary : {FALSE},
                                 engine_error : {"cuda"}, path : SourcePaths]] :
                   /\ f[1].job_id = "j1" /\ f[2].job_id = "j2"
                   /\ basename(f[1].path) # basename(f[2].path)}
    /\ seg_call = NoSegCall
    /\ seg_ret = NoSegRet
    /\ summary_call = NoText
    /\ summary_ret = NoSummary

\* the requests of SpecValidate: two requests with their own job ids, each
\* on any file
InitValidate ==
    /\ InitService({DefaultConfig}, {DefaultService})
    /\ pc = [r \in Reqs |-> "idle"]
    /\ inp \in {f \in [Reqs -> Inputs(JobIds, AllFiles)] :
                   /\ f[1].job_id = "j1" /\ f[2].job_id = "j2"
                   /\ \A r \in Reqs : ~f[r].generate_summary /\ f[r].engine_error = "cuda"}
    /\ seg_call = NoSegCall
    /\ seg_ret = NoSegRet
    /\ summary_call = NoText
    /\ summary_ret = NoSummary

\* the sequences over S of the lengths 1..n
SeqsUpTo(S, n) == UNION {[1..k -> S] : k \in 1..n}

\* the texts of SpecSummary: every short text of blank pieces and of two
\* sentences that may repeat, and the long texts of distinct sentences
InitSummary ==
    /\ InitService({DefaultConfig}, {DefaultService})
    /\ pc = [r \in Reqs |-> "absent"]
    /\ inp = [r \in Reqs |-> NoInput]
    /\ seg_call = NoSegCall
    /\ seg_ret = NoSegRet
    /\ summary_call \in
          {Text(p, padded) : p \in SeqsUpTo(0..2, MaxPieces), padded \in BOOLEAN}
          \cup {Text([i \in 1..n |-> i], FALSE) : n \in 4..MaxSentences}
    /\ summary_ret = NoSummary

(***************************************************************************)
(* Specifications.                                                         *)
(***************************************************************************)
Next ==
    \/ \E r \in Reqs : Transcribe(r)
    \/ \E r \in Reqs : Validate(r)
    \/ \E r \in Reqs : Preprocess(r)
    \/ \E r \in Reqs : LoadModel(r)
    \/ \E r \in Reqs : Segment(r)
    \/ \E r \in Reqs : Segmented(r)
    \/ \E r \in Reqs : \E i \in 1..(MaxSegments + 1) : TaskStart(r, i)
    \/ \E r \in Reqs : \E i \in 1..(MaxSegments + 1) : TaskWrite(r, i)
    \/ \E r \in Reqs : \E i \in 1..(MaxSegments + 1) : TaskTranscribe(r, i)
    \/ \E r \in Reqs : \E i \in 1..(MaxSegments + 1) : Collect(r, i)
    \/ \E r \in Reqs : Combine(r)
    \/ \E r \in Reqs : SeqSegment(r)
    \/ \E r \in Reqs : Assemble(r)
    \/ \E r \in Reqs : Summary(r)
    \/ \E r \in Reqs : CleanupSegments(r)
    \/ \E r \in Reqs : ShortStart(r)
    \/ \E r \in Reqs : Attempt(r)
    \/ \E r \in Reqs : ShortProcess(r)
    \/ \E r \in Reqs : ShortLoopUpdate(r)
    \/ \E r \in Reqs : Finalize(r)
    \/ \E r \in Reqs : SummaryShort(r)
    \/ \E r \in Reqs : Complete(r)
    \/ \E r \in Reqs : Except(r)

Spec == Init /\ [][Next]_vars

NextShared ==
    \/ \E r \in Reqs : Transcribe(r)
    \/ \E r \in Reqs : Validate(r)
    \/ \E r \in Reqs : Preprocess(r)
    \/ \E r \in Reqs : LoadModel(r)
    \/ \E r \in Reqs : ShortStart(r)
    \/ \E r \in Reqs : Attempt(r)
    \/ \E r \in Reqs : ShortProcess(r)
    \/ \E r \in Reqs : ShortLoopUpdate(r)
    \/ \E r \in Reqs : Finalize(r)
    \/ \E r \in Reqs : Complete(r)
    \/ \E r \in Reqs : Except(r)
    \/ Tick
    \/ \E older_than \in OlderThan : cleanup_jobs(older_than)

\* the steps of the thread that runs transcribe_audio for request r
DriverStep(r) ==
    \/ Transcribe(r) \/ Validate(r) \/ Preprocess(r) \/ LoadModel(r) \/ Segment(r)
    \/ Segmented(r) \/ (\E i \in 1..(MaxSegments + 1) : Collect(r, i)) \/ Combine(r)
    \/ SeqSegment(r) \/ Assemble(r) \/ Summary(r) \/ CleanupSegments(r) \/ ShortStart(r)
    \/ Attempt(r) \/ ShortProcess(r) \/ ShortLoopUpdate(r) \/ Finalize(r)
    \/ SummaryShort(r) \/ Complete(r) \/ Except(r)

\* the steps of the pool thread that runs segment task i of request r
WorkerStep(r, i) == TaskStart(r, i) \/ TaskWrite(r, i) \/ TaskTranscribe(r, i)

\* One request with every thread that can run eventually running: each engine
\* load and each engine call returns or raises.
SpecLive ==
    /\ InitLive
    /\ [][Next]_vars
    /\ \A r \in Reqs : WF_vars(DriverStep(r))
    /\ \A r \in Reqs : \A i \in 1..MaxLiveSegments : WF_vars(WorkerStep(r, i))

SpecShared == InitShared /\ [][NextShared]_vars

NextSeg == SegmentAudioCall

NextPool ==
    \/ \E r \in Reqs : Transcribe(r)
    \/ \E r \in Reqs : Validate(r)
    \/ \E r \in Reqs : Preprocess(r)
    \/ \E r \in Reqs : LoadModel(r)
    \/ \E r \in Reqs : Segment(r)
    \/ \E r \in Reqs : Segmented(r)
    \/ \E r \in Reqs : \E i \in 1..MaxPoolSegments : TaskStart(r, i)
    \/ \E r \in Reqs : \E i \in 1..MaxPoolSegments : TaskWrite(r, i)
    \/ \E r \in Reqs : \E i \in 1..MaxPoolSegments : TaskTranscribe(r, i)
    \/ \E r \in Reqs : \E i \in 1..MaxPoolSegments : Collect(r, i)
    \/ \E r \in Reqs : Combine(r)
    \/ \E r \in Reqs : SeqSegment(r)
    \/ \E r \in Reqs : Assemble(r)
    \/ \E r \in Reqs : CleanupSegments(r)
    \/ \E r \in Reqs : Finalize(r)
    \/ \E r \in Reqs : Complete(r)

SpecPool == InitPool /\ [][NextPool]_vars

NextSweep ==
    \/ \E r \in Reqs : Transcribe(r)
    \/ \E r \in Reqs : Validate(r)
    \/ \E r \in Reqs : Except(r)
    \/ Tick
    \/ \E older_than \in OlderThan : SweepBegin(older_than)
    \/ SweepNext
    \/ SweepDelete

SpecSweep == InitSweep /\ [][NextSweep]_vars

NextModel ==
    \/ \E r \in Reqs : GetModelEnter(r)
    \/ \E r \in Reqs : GetModelAcquire(r)
    \/ \E r \in Reqs : GetModelLoad(r)

SpecModel == InitModel /\ [][NextModel]_vars

SpecFiles == InitFiles /\ [][NextPool]_vars

NextValidate ==
    \/ \E r \in Reqs : Transcribe(r)
    \/ \E r \in Reqs : Validate(r)
    \/ \E r \in Reqs : Except(r)

SpecValidate == InitValidate /\ [][NextValidate]_vars

NextSummary == GenerateSummaryCall

SpecSummary == InitSummary /\ [][NextSummary]_vars

SpecSeg == InitSeg /\ [][NextSeg]_vars

(***************************************************************************)
(* Properties of segment_audio (SpecSeg).                                  *)
(***************************************************************************)
\* C2: for every duration D > 0 and segment length L > 0, segment_audio returns exactly
\* ceil(D/L) intervals: the first starts at 0, each starts where the one before it ends,
\* all but the last are L long, the last is the non-empty remainder and ends at D; so
\* D = 1205, L = 600 gives [0,600), [600,1200), [1200,1205).
C2_SegmentsTileTheDuration ==
    seg_ret.returned =>
        LET D == seg_call.total_duration
            L == seg_call.segment_duration
            S == seg_ret.segments
            n == Len(S)
        IN  /\ n >= 1
            /\ (n - 1) * L < D
            /\ D <= n * L
            /\ S[1].start = 0
            /\ S[n].end = D
            /\ \A i \in 1..n : S[i].start < S[i].end /\ S[i].end - S[i].start <= L
            /\ \A i \in 1..(n - 1) : S[i].end = S[i + 1].start /\ S[i].end - S[i].start = L
            /\ (D = 1205 /\ L = 600) =>
                   S = <<[start |-> 0, end |-> 600], [start |-> 600, end |-> 1200],
                         [start |-> 1200, end |-> 1205]>>

\* the spec's example has been cut, its last segment shortened to the remainder
C2_Witness ==
    /\ seg_ret.returned
    /\ seg_call.total_duration = 1205
    /\ seg_call.segment_duration = segment_length
    /\ Len(seg_ret.segments) = 3
    /\ seg_ret.segments[3].end - seg_ret.segments[3].start = 5

(***************************************************************************)
(* Properties of one job (Spec).                                           *)
(***************************************************************************)
\* the file of request r fails validate_audio_file for one of its four reasons
FailsValidation(r) ==
    \/ ~inp[r].file.exists
    \/ inp[r].file.too_large
    \/ ~inp[r].file.ext_ok
    \/ ~inp[r].file.readable

\* the list the sequential loop returns for the segments of r, each segment having the
\* outcome the engine had on it in this run
SequentialRun(r) ==
    [i \in 1..Len(loc[r].segment_paths) |->
        SequentialEntry(i, loc[r].segment_paths[i], i \notin obs[r].engine_failed)]

\* C1: in parallel mode, whatever the order in which the tasks completed, the list
\* transcribe_segments_parallel returns is ordered by segment index 1..N and is the
\* list a sequential run over the same segments would return.
C1_ParallelListIsTheSequentialList ==
    \A r \in Reqs :
        (pc[r] = "assemble" /\ task[r] # <<>>) =>
            /\ Len(loc[r].data) = Len(loc[r].segment_paths)
            /\ \A i \in 1..Len(loc[r].data) : loc[r].data[i].segment_number = i
            /\ loc[r].data = SequentialRun(r)

\* C3: the progress percent of a job's record never decreases while the record is not
\* terminal, on every path and under every interleaving of the driver with the tasks.
C3_ProgressNeverDecreases ==
    [][\A j \in DOMAIN transcription_progress \cap DOMAIN transcription_progress' :
           ~Terminal(transcription_progress[j]) =>
               transcription_progress'[j].progress >= transcription_progress[j].progress]_vars

\* C6: when the engine fails on some of the N segments of a job and succeeds on the
\* others, the job ends completed with a success result whose transcript has N slots
\* in segment order, a placeholder in exactly the slots of the failed segments and
\* real text in all the others.
C6_FailedSegmentKeepsItsSlot ==
    \A r \in Reqs :
        (pc[r] = "done" /\ obs[r].units >= 1) =>
            /\ resp[r].kind = "success"
            /\ Has(Job(r))
            /\ transcription_progress[Job(r)].status = "completado"
            /\ Len(resp[r].transcription) = obs[r].units
            /\ \A i \in 1..obs[r].units :
                  /\ resp[r].transcription[i].seg = i
                  /\ IsPlaceholder(resp[r].transcription[i]) <=> i \in obs[r].engine_failed

\* a job of three segments, run in parallel, has ended after the engine failed on the
\* second segment alone
C6_Witness ==
    \E r \in Reqs :
        /\ pc[r] = "done"
        /\ obs[r].units = 3
        /\ obs[r].engine_failed = {2}
        /\ resp[r].kind = "success"
        /\ IsPlaceholder(resp[r].transcription[2])
        /\ ~IsPlaceholder(resp[r].transcription[1])
        /\ ~IsPlaceholder(resp[r].transcription[3])

\* C7: a request whose file fails validation never has a record with status
\* transcribing, never loads and never calls the engine, and ends with an error result
\* and a record of status error.
C7_InvalidFileNeverTranscribes ==
    \A r \in Reqs :
        (FailsValidation(r) /\ pc[r] # "absent") =>
            /\ Has(Job(r)) => transcription_progress[Job(r)].status # "transcribiendo"
            /\ obs[r].get_model_calls = 0
            /\ obs[r].transcribe_calls = 0
            /\ pc[r] \notin {"preprocess", "load", "segment", "segmented", "parallel",
                             "sequential", "short_start", "attempt", "short_process"}
            /\ pc[r] = "done" =>
                  /\ resp[r].kind = "failure"
                  /\ Has(Job(r))
                  /\ transcription_progress[Job(r)].status = "error"
                  /\ transcription_progress[Job(r)].error # "none"

\* a request on an unreadable file has been answered
C7_Witness ==
    \E r \in Reqs :
        /\ pc[r] = "done"
        /\ inp[r].file.exists
        /\ ~inp[r].file.readable
        /\ resp[r].kind = "failure"
        /\ transcription_progress[Job(r)].status = "error"

(***************************************************************************)
(* Properties of the shared progress map (SpecShared).                     *)
(***************************************************************************)
\* the step is a call of cleanup_jobs
IsSweep == sweep'.n # sweep.n

\* the keys the step removes from the map
Gone == DOMAIN transcription_progress \ DOMAIN transcription_progress'

\* the step leaves every record it does not remove as it is, and adds none
KeepsTheRest ==
    /\ DOMAIN transcription_progress' \subseteq DOMAIN transcription_progress
    /\ \A j \in DOMAIN transcription_progress' :
          transcription_progress'[j] = transcription_progress[j]

\* C4: once a record is completed or error, no step changes any of its fields; the
\* only thing that happens to it is its removal by the cleanup sweep.
C4_TerminalRecordIsFrozen ==
    [][\A j \in DOMAIN transcription_progress :
           Terminal(transcription_progress[j]) =>
               IF j \in DOMAIN transcription_progress'
               THEN transcription_progress'[j] = transcription_progress[j]
               ELSE IsSweep]_vars

\* C5: in every state of every record the percent is 100 exactly when the status is
\* completed; a step that makes a record's status error leaves its percent as it was
\* and stores a message.
C5_HundredIffCompleted ==
    [][\A j \in DOMAIN transcription_progress' :
           LET new == transcription_progress'[j] IN
           /\ new.progress = 100 <=> new.status = "completado"
           /\ new.status = "error" => new.error # "none"
           /\ (j \in DOMAIN transcription_progress /\ new.status = "error"
               /\ transcription_progress[j].status # "error")
                  => new.progress = transcription_progress[j].progress]_vars

C10_DriverAlwaysReturnsAResult ==
    [][\A r \in Reqs :
           (pc[r] # "done" /\ pc'[r] = "done") =>
               /\ resp'[r].kind \in {"success", "failure"}
               /\ resp'[r].kind = "failure" =>
                      /\ Job(r) \in DOMAIN transcription_progress'
                      /\ transcription_progress'[Job(r)].status = "error"
                      /\ transcription_progress'[Job(r)].error # "none"]_vars

(***************************************************************************)
(* The choice between the single call and the segmented path (Spec).       *)
(***************************************************************************)
\* the positions of the driver on the segmented path and on the single-call path
SegmentedPath == {"segment", "segmented", "parallel", "sequential", "assemble", "summary",
                  "cleanup_segments", "finalize"}
SingleCallPath == {"short_start", "attempt", "short_process", "short_loop", "summary_short"}

\* C20: the driver calls segment_audio if and only if the probed duration is strictly
\* greater than the threshold: a file of at most the threshold takes the single-call
\* path and segment_audio is never called for it, a longer file takes the segmented
\* path.
C20_SegmenterIffLongerThanThreshold ==
    \A r \in Reqs :
        LET longer == inp[r].file.duration > 600 IN
        /\ obs[r].segment_audio_calls > 0 => longer
        /\ pc[r] \in SegmentedPath => longer
        /\ pc[r] \in SingleCallPath => (~longer /\ obs[r].segment_audio_calls = 0)
        /\ (pc[r] = "done" /\ resp[r].kind = "success") =>
               (obs[r].segment_audio_calls = 1 <=> longer)

\* a file whose duration is exactly the threshold has been transcribed by the single call
C20_Witness ==
    \E r \in Reqs :
        /\ pc[r] = "done"
        /\ resp[r].kind = "success"
        /\ inp[r].file.duration = 600
        /\ obs[r].segment_audio_calls = 0
        /\ obs[r].transcribe_calls >= 1

(***************************************************************************)
(* The retry loop of the single-call path (Spec).                          *)
(***************************************************************************)
\* the attempts the loop may make on one unit of work
Budget == IF CONFIG.robust_mode THEN 2 ELSE 1

\* C12: for one unit of work the retry loop calls the engine's transcribe at most 2
\* times in robust mode and at most once otherwise, whatever the engine raises; when
\* the budget is exhausted, the exception of the last attempt is the one raised to the
\* caller.
C12_AttemptsWithinBudget ==
    \A r \in Reqs :
        (pc[r] # "absent" /\ obs[r].units = 0) =>
            /\ obs[r].transcribe_calls <= Budget
            /\ loc[r].attempt < Budget
            /\ pc[r] \in {"short_process", "short_loop"} => obs[r].transcribe_calls >= 1
            /\ (pc[r] = "except" /\ loc[r].last_error # "none") =>
                   /\ loc[r].attempt = Budget - 1
                   /\ loc[r].exc = loc[r].last_error

\* in robust mode the engine has been called twice and has failed twice, and the second
\* exception is on its way to the caller
C12_Witness ==
    \E r \in Reqs :
        /\ CONFIG.robust_mode
        /\ pc[r] = "except"
        /\ obs[r].transcribe_calls = 2
        /\ loc[r].attempt = 1
        /\ loc[r].last_error \in EngineErrors
        /\ loc[r].exc = loc[r].last_error

\* C13: when an attempt fails with a device (CUDA/cuDNN) error and attempts remain, the
\* device is set to cpu, the engine is loaded again for the model name on that device,
\* and the next attempt calls transcribe on the engine loaded again, not on the one
\* that failed.
C13_RetryAfterDeviceErrorReloadsEngine ==
    [][\A r \in Reqs :
           (/\ pc[r] = "attempt"
            /\ loc[r].attempt >= 1
            /\ loc[r].last_error = "cuda"
            /\ obs'[r].transcribe_calls = obs[r].transcribe_calls + 1) =>
               /\ CONFIG.device = "cpu"
               /\ obs'[r].get_model_calls = obs[r].get_model_calls + 1]_vars

\* C14: when an attempt fails with an exception that is not a device error, the
\* exception is raised to the caller at once, without another attempt, also when
\* attempts remain.
C14_OtherErrorIsRaisedAtOnce ==
    \A r \in Reqs :
        loc[r].last_error = "other" => (pc[r] = "except" /\ loc[r].exc = "other")

\* C15: the retry loop applies to a segment as to a whole file: in robust mode a
\* segment whose first attempt fails with a device error is attempted again after the
\* device has been set to cpu, and it becomes a placeholder only after its budget is
\* used up, in sequential and in parallel scheduling.  So when the scheduler has
\* returned, every such segment accounts for one call of transcribe more.
C15_SegmentIsRetriedAfterDeviceError ==
    \A r \in Reqs :
        (/\ CONFIG.robust_mode
         /\ pc[r] = "assemble"
         /\ IsCudaError(inp[r].engine_error)
         /\ obs[r].engine_failed # {}) =>
            /\ obs[r].transcribe_calls >= obs[r].units + Cardinality(obs[r].engine_failed)
            /\ CONFIG.device = "cpu"

(***************************************************************************)
(* The temporary files of a job (Spec).                                    *)
(***************************************************************************)
\* C16: the file preprocess_audio wrote for a job no longer exists when
\* transcribe_audio returns, on every exit path: success, an error raised after the
\* preprocessing, the single-call and the segmented path.
C16_ProcessedFileIsGoneOnReturn ==
    \A r \in Reqs : pc[r] = "done" => ~obs[r].processed

\* C17: every segment file segment_audio wrote for a job has been deleted when the job
\* is terminal, whether its segments were transcribed or not, also the files written
\* before segment_audio failed and fell back to the single unit.
C17_SegmentFilesAreGoneWhenTerminal ==
    \A r \in Reqs :
        (pc[r] = "done" /\ Has(Job(r)) /\ Terminal(transcription_progress[Job(r)])) =>
            obs[r].segment_files = {}

(***************************************************************************)
(* The worker pool of transcribe_segments_parallel (SpecPool).             *)
(***************************************************************************)
\* the tasks of r in one of the given states
TasksIn(r, states) == {i \in DOMAIN task[r] : task[r][i].st \in states}

\* C18: in parallel mode at most W = 3 segments of a job are being transcribed at any
\* moment, every segment is handed to exactly one task, which calls the engine on it
\* once, and the scheduler returns only after all N tasks have finished.
C18_AtMostWSegmentsAtOnce ==
    \A r \in Reqs :
        /\ pc[r] = "parallel" =>
              /\ Cardinality(TasksIn(r, {"started", "wrote"})) <= 3
              /\ Len(task[r]) = Len(loc[r].segment_paths)
              /\ obs[r].transcribe_calls = Cardinality(TasksIn(r, {"done", "collected"}))
        /\ (pc[r] = "assemble" /\ task[r] # <<>>) =>
              /\ TasksIn(r, {"collected"}) = 1..Len(loc[r].segment_paths)
              /\ obs[r].transcribe_calls = Len(loc[r].segment_paths)
              /\ Len(loc[r].data) = Len(loc[r].segment_paths)

\* three segments of a job of more than three are being transcribed, another one waits
C18_Witness ==
    \E r \in Reqs :
        /\ pc[r] = "parallel"
        /\ Len(task[r]) > 3
        /\ Cardinality(TasksIn(r, {"started", "wrote"})) = 3
        /\ TasksIn(r, {"queued"}) # {}

(***************************************************************************)
(* The sweep among running requests (SpecSweep).                           *)
(***************************************************************************)
\* C19: a /cleanup sweep that runs while jobs insert and update their records always
\* completes successfully and removes exactly the terminal records older than the
\* cutoff: no interleaving of its loop with a job's insert makes it fail, skip a record
\* or remove the wrong one.
C19_SweepAmongInsertsSucceeds ==
    [][IsSweep =>
           /\ ~sweep'.failed
           /\ KeepsTheRest
           /\ Gone = jobs_to_remove(transcription_progress, sweep'.cutoff_time)]_vars

\* the successful constructions of an engine for model name m: the preload
\* and the calls of get_model
LoadsOf(m) ==
    (IF m = default_model /\ service.preloaded THEN 1 ELSE 0)
    + Cardinality({r \in Reqs : inp[r].model = m /\ obs[r].engine_loads >= 1})

\* C11: an engine is constructed at most once per model name, whatever the
\* preload did and however the callers of get_model interleave: a call
\* constructs at most one engine, no two callers construct at the same time,
\* every model name has at most one successful construction, and a caller
\* that returns without constructing holds the cached engine of its name.
C11_EngineLoadedAtMostOncePerName ==
    /\ \A r \in Reqs : obs[r].engine_loads <= 1
    /\ Cardinality({r \in Reqs : pc[r] = "gm_loading"}) <= 1
    /\ \A m \in ModelNames : LoadsOf(m) <= 1
    /\ \A r \in Reqs : pc[r] = "gm_return" =>
          /\ inp[r].model \in service.models
          /\ LoadsOf(inp[r].model) = 1

\* two callers of one model name that was not preloaded have both returned:
\* one constructed the engine, the other received it from the cache
C11_Witness ==
    \E r, q \in Reqs :
        /\ r # q
        /\ inp[r].model = inp[q].model
        /\ ~(inp[r].model = default_model /\ service.preloaded)
        /\ pc[r] = "gm_return" /\ pc[q] = "gm_return"
        /\ obs[r].engine_loads = 1
        /\ obs[q].engine_loads = 0
        /\ obs[q].get_model_calls = 1

\* C21: every engine call made on the CPU or in robust mode uses the
\* conservative preset, on the single-call path and in both schedulers.
C21_ConservativePresetOnCpuOrRobust ==
    \A r \in Reqs : \A c \in obs[r].engine_calls :
        (c.device = "cpu" \/ c.robust_mode) => c.beam_size = ConservativeBeam

\* a request between its arrival and its answer
InFlight(r) == pc[r] \notin {"idle", "done", "absent"}

\* the temporary files request r has on disk: the normalized file, the
\* segment audio files and the transcripts of the parallel segment tasks
TempFilesOf(r) ==
    (IF obs[r].processed THEN {loc[r].processed_path} ELSE {})
    \cup {segment_path(loc[r].processed_path, i) : i \in obs[r].segment_files}
    \cup {transcription_path(segment_path(loc[r].processed_path, i)) :
             i \in {k \in DOMAIN task[r] : /\ task[r][k].st \in {"done", "collected"}
                                           /\ ~task[r][k].res.error}}

\* C22: two requests in flight on source files with different names have
\* no temporary file in common.
C22_TempFilesAreDisjoint ==
    \A r, q \in Reqs :
        (r # q /\ InFlight(r) /\ InFlight(q) /\ basename(inp[r].path) # basename(inp[q].path))
            => TempFilesOf(r) \cap TempFilesOf(q) = {}

\* the changes of status the lifecycle allows
ForwardStatus ==
    { <<"iniciando", "transcribiendo">>, <<"transcribiendo", "completado">>,
      <<"iniciando", "error">>, <<"transcribiendo", "error">> }

\* the request whose step this is
Stepped(r) == pc'[r] # pc[r]

\* C23: the status of a record only moves forward along iniciando ->
\* transcribiendo -> completado, with error reached from a status that is
\* not terminal only; it becomes transcribiendo only in the step that
\* follows the engine load of a validated file, and completado only in the
\* last step of the driver.
C23_StatusOnlyMovesForward ==
    [][\A j \in DOMAIN transcription_progress \cap DOMAIN transcription_progress' :
          LET a == transcription_progress[j].status
              b == transcription_progress'[j].status
          IN  a # b =>
                /\ <<a, b>> \in ForwardStatus
                /\ b = "transcribiendo" =>
                      \E r \in Reqs : /\ Stepped(r) /\ Job(r) = j
                                      /\ pc[r] \in {"segmented", "short_start"}
                                      /\ validate_audio_file(inp[r].file) = "ok"
                                      /\ obs[r].get_model_calls >= 1
                /\ b = "completado" =>
                      \E r \in Reqs : Stepped(r) /\ Job(r) = j /\ pc[r] = "complete"]_vars

\* C24: every job that is started reaches a terminal status, whatever the
\* path it takes and however many segments or attempts fail.
C24_StartedJobReachesTerminalStatus ==
    \A r \in Reqs :
        (pc[r] = "validate") ~>
            (/\ pc[r] = "done"
             /\ Has(Job(r))
             /\ Terminal(transcription_progress[Job(r)]))

\* a job of several segments has ended after the engine failed on one of them
C24_Witness ==
    \E r \in Reqs :
        /\ pc[r] = "done"
        /\ obs[r].units >= 2
        /\ obs[r].engine_failed # {}
        /\ Has(Job(r))
        /\ Terminal(transcription_progress[Job(r)])

\* C25: while the segments of a job are transcribed, after k of N segments
\* have completed the record shows current_segment = k, total_segments = N
\* and the percent of k/N in the segment sub-range, in both schedulers.
C25_RecordShowsCompletedSegments ==
    \A r \in Reqs :
        LET rec == transcription_progress[Job(r)]
            N == Len(loc[r].segment_paths)
        IN  /\ (Has(Job(r)) /\ pc[r] = "parallel" /\ loc[r].completed_segments >= 1) =>
                  /\ rec.current_segment = loc[r].completed_segments
                  /\ rec.total_segments = N
                  /\ rec.progress = ParallelPercent(loc[r].completed_segments, N)
            /\ (Has(Job(r)) /\ pc[r] = "sequential" /\ loc[r].i >= 1) =>
                  /\ rec.current_segment = loc[r].i
                  /\ rec.total_segments = N
                  /\ rec.progress = SequentialPercent(loc[r].i, N)

\* segment_audio of request r failed: it did not write all its segment files
SegmentAudioFailed(r) ==
    obs[r].segment_files # 1..CeilDiv(loc[r].duration, segment_length)

\* C26: segment_audio never raises to the driver; when it fails it returns
\* one unit of work, the file it was given, and the job goes on in the
\* sequential loop.
C26_FailedSegmenterReturnsTheWholeFile ==
    [][\A r \in Reqs :
          /\ (pc[r] = "segment" /\ Stepped(r) /\ Has(Job(r))) =>
                /\ pc'[r] = "segmented"
                /\ Len(loc'[r].segment_paths) >= 1
                /\ SegmentAudioFailed(r)' =>
                      /\ Len(loc'[r].segment_paths) = 1
                      /\ loc'[r].segment_paths[1].seg = 0
                      /\ loc'[r].segment_paths[1].start = 0
                      /\ loc'[r].segment_paths[1].end = loc[r].duration
          /\ (pc[r] = "segmented" /\ Stepped(r) /\ Has(Job(r)) /\ SegmentAudioFailed(r)) =>
                pc'[r] = "sequential"]_vars

\* a job whose segmenter failed after writing a file is in the sequential
\* loop with the whole file as its only unit
C26_Witness ==
    \E r \in Reqs :
        /\ pc[r] = "sequential"
        /\ SegmentAudioFailed(r)
        /\ obs[r].segment_files # {}
        /\ Len(loc[r].segment_paths) = 1
        /\ loc[r].segment_paths[1].seg = 0

RECURSIVE IsSubsequence(_, _)
\* u can be obtained from s by leaving sentences out
IsSubsequence(u, s) ==
    IF u = <<>> THEN TRUE
    ELSE IF s = <<>> THEN FALSE
    ELSE IF Head(u) = Head(s) THEN IsSubsequence(Tail(u), Tail(s))
    ELSE IsSubsequence(u, Tail(s))

\* what the claim says of a text of n > 3 sentences: the first two, the last
\* and evenly spaced middle sentences, in their order, none twice, at most
\* max(3, min(floor(n/3), 10)) of them
SummaryOfLongText ==
    LET s == SentencesOf(summary_call)
        n == Len(s)
        u == summary_ret.sentences
        cap == IF n \div 3 < 3 THEN 3 ELSE IF n \div 3 > 10 THEN 10 ELSE n \div 3
    IN  n > 3 =>
          /\ summary_ret.kind = "summary"
          /\ \A i, k \in DOMAIN u : i # k => u[i] # u[k]
          /\ Len(u) <= cap
          /\ IsSubsequence(u, s)
          /\ u[1] = s[1]
          /\ \E k \in DOMAIN u : u[k] = s[2]
          /\ \E k \in DOMAIN u : u[k] = s[n]
          /\ (\A i \in DOMAIN s : s[i] = i) =>
                /\ Len(u) = cap
                /\ \A k \in 4..(Len(u) - 2) : u[k + 1] - u[k] = u[k] - u[k - 1]

MostOften(data, good) ==
    LET Count(l) == Cardinality({i \in good : data[i].language = l})
    IN  {data[i].language : i \in {i \in good : \A k \in good :
                                     Count(data[k].language) <= Count(data[i].language)}}

\* C28: the language a segmented job reports is the one detected most often
\* on the segments that were transcribed; a segment the engine failed on
\* never determines it.
C28_LanguageOfSuccessfulSegments ==
    \A r \in Reqs :
        (pc[r] = "complete" /\ loc[r].segmented) =>
            LET data == loc[r].data
                good == {i \in DOMAIN data : data[i].segment_number \notin obs[r].engine_failed}
            IN  good # {} => Result(r).language \in MostOften(data, good)

\* a step of request r: of its driver or of one of its segment tasks
StepOf(r) == <<pc[r], loc[r], task[r], obs[r], resp[r]>>' # <<pc[r], loc[r], task[r], obs[r], resp[r]>>

\* C29: with distinct job ids, a step of a job's driver or tasks changes no
\* record but the one under its own id, and adds and removes no other key.
C29_JobWritesOnlyItsOwnRecord ==
    [][\A r \in Reqs :
          (StepOf(r) /\ \A q \in Reqs \ {r} : inp[q].job_id # inp[r].job_id) =>
              /\ DOMAIN transcription_progress' \ {inp[r].job_id}
                    = DOMAIN transcription_progress \ {inp[r].job_id}
              /\ \A j \in DOMAIN transcription_progress \ {inp[r].job_id} :
                    transcription_progress'[j] = transcription_progress[j]]_vars

\* two jobs with distinct ids are both in their parallel scheduler, one of
\* them with a completed segment
C29_Witness ==
    /\ inp[1].job_id # inp[2].job_id
    /\ pc[1] = "parallel" /\ pc[2] = "parallel"
    /\ loc[1].completed_segments >= 1
    /\ DOMAIN transcription_progress = {inp[1].job_id, inp[2].job_id}
    /\ transcription_progress[inp[1].job_id].progress
          # transcription_progress[inp[2].job_id].progress

\* C30: validate_audio_file checks existence, size, extension and then
\* probes the audio, and raises for the first check that fails: not found
\* for a missing path whatever its extension, too large for an oversized
\* file even with an unsupported extension; the probe is made only when
\* the three checks before it passed.
C30_FirstFailingCheckIsReported ==
    \A r \in Reqs :
        LET file == inp[r].file
            checks == obs[r].checks
            passed == file.exists /\ ~file.too_large /\ file.ext_ok
        IN  checks # <<>> =>
              /\ \E n \in 1..4 : checks = SubSeq(<<"exists", "size", "format", "probe">>, 1, n)
              /\ (\E i \in DOMAIN checks : checks[i] = "probe") <=> passed
              /\ pc[r] = "except" =>
                    /\ ~file.exists => loc[r].exc = "FileNotFoundError"
                    /\ (file.exists /\ file.too_large) =>
                          loc[r].exc = "ValueError: Archivo demasiado grande"
                    /\ (file.exists /\ ~file.too_large /\ ~file.ext_ok) =>
                          loc[r].exc = "ValueError: Formato no soportado"
                    /\ passed => loc[r].exc = "ValueError: Error leyendo archivo de audio"
              /\ pc[r] = "preprocess" => passed /\ file.readable

\* an existing oversized file with an unsupported extension has been rejected
C30_Witness ==
    \E r \in Reqs :
        /\ pc[r] = "except"
        /\ inp[r].file.exists /\ inp[r].file.too_large /\ ~inp[r].file.ext_ok
        /\ obs[r].checks = <<"exists", "size">>


(***************************************************************************)
(* Failed segments in the result of a segmented job (Spec).                *)
(***************************************************************************)
\* the seconds of audio in the segments `good` of a file cut every segment_length
RECURSIVE DurationOf(_, _)
DurationOf(good, duration) ==
    IF good = {} THEN 0
    ELSE LET i == CHOOSE i \in good : TRUE
         IN  Min(i * segment_length, duration) - (i - 1) * segment_length
             + DurationOf(good \ {i}, duration)

\* C31: in the result of a segmented job, sequential or parallel, a segment the
\* engine failed on is not among the timed segments, is not counted in
\* segments_count and adds nothing to the duration.
C31_FailedSegmentIsLeftOutOfTheResult ==
    \A r \in Reqs :
        (pc[r] = "done" /\ resp[r].kind = "success" /\ obs[r].units >= 1) =>
            LET good == (1..obs[r].units) \ obs[r].engine_failed IN
            /\ \A k \in DOMAIN resp[r].segments :
                   /\ ~IsPlaceholder(resp[r].segments[k].text)
                   /\ resp[r].segments[k].text.seg \notin obs[r].engine_failed
            /\ resp[r].segments_count = Cardinality(good)
            /\ obs[r].units >= 2 =>
                   resp[r].total_duration = DurationOf(good, inp[r].file.duration)

(***************************************************************************)
(* The times of the timed segments of a segmented job (Spec).              *)
(***************************************************************************)
\* C32: the timed segment reported for the i-th segment of a segmented job has
\* the interval the segmenter cut for it, from (i-1)*L to min(i*L, D), whenever
\* the segment was transcribed; the timed segments of a job without failed
\* segments are contiguous and end at D.
C32_TimedSegmentIsTheIntervalCut ==
    \A r \in Reqs :
        (pc[r] = "done" /\ resp[r].kind = "success" /\ obs[r].units >= 2) =>
            LET D == inp[r].file.duration
                timed == resp[r].segments
            IN  /\ \A k \in DOMAIN timed :
                       LET n == timed[k].text.seg IN
                       ~IsPlaceholder(timed[k].text) =>
                           /\ timed[k].start = (n - 1) * segment_length
                           /\ timed[k].end = Min(n * segment_length, D)
                /\ obs[r].engine_failed = {} =>
                       /\ timed[Len(timed)].end = D
                       /\ \A k \in 1..(Len(timed) - 1) : timed[k].end = timed[k + 1].start

(***************************************************************************)
(* The caller's file (Spec).                                               *)
(***************************************************************************)
\* C33: no run of the pipeline deletes the caller's input file, also when
\* preprocess_audio returned the original path and segment_audio fell back to
\* that same path as its single unit of work.
C33_InputFileIsNeverDeleted ==
    \A r \in Reqs : ~obs[r].input_deleted

(***************************************************************************)
(* The device selection (Spec).                                            *)
(***************************************************************************)
\* C34: in every reachable state the device selection is consistent: when the
\* device is cpu the precision is float32 or int8, never float16, after the
\* load-time fallback of get_model and after a downgrade by the retry loop.
C34_CpuNeverHasFloat16 ==
    CONFIG.device = "cpu" => CONFIG.compute_type \in {"float32", "int8"}
====
